---------------------------- MODULE Spec2Model ----------------------------
(***************************************************************************)
(* King Albert patience: the board / location rule engine of               *)
(* src/src/board.rs (Board, Foundation, Column, SpotInHand, Movement),     *)
(* with the value types (Suit, Color, Card) of src/src/main.rs.            *)
(*                                                                         *)
(* A label is modelled by its character code ('a' = 97), a Rust Option by  *)
(* a sequence of length 0 (None) or 1 (Some), a Vec by a sequence, and a   *)
(* StaticVec / array by a function on 0..n-1.                              *)
(***************************************************************************)
EXTENDS Integers, Sequences, FiniteSets, TLC

VARIABLES
    board,        \* the Board of board.rs: [foundations, columns, hand]
    legacy,       \* the Board of main.rs: [foundations, columns, hand]
    panicked,     \* TRUE once a panic!() has aborted the program
    pc,           \* main(): where the driver loop stands
    move,         \* main(): the Move being read (`m` in main.rs)
    dealt,        \* history: the deck that was dealt
    received,     \* history: per foundation, the cards it received, in order
    dealtLeft,    \* history: per column, how many of its dealt cards remain
    columnMoves,  \* history: number of executed movements onto a column
    placedLog     \* history (SpecRuns): the cards execute placed on a column,
                  \* and those of them it took off again, in order

vars == <<board, legacy, panicked, pc, move, dealt, received, dealtLeft,
          columnMoves, placedLog>>

---------------------------------------------------------------------------
(* Program constants *)

NUM_SUITS == 4
MAX_RANK == 13
NUM_COLUMNS == 9
NUM_SPOTS_IN_HAND == 7

\* type Rank = u8: the largest rank a u8 holds
U8_MAX == 255

\* character codes of the label range boundaries
Ch_a == 97
Ch_d == 100
Ch_e == 101
Ch_m == 109
Ch_n == 110
Ch_t == 116

(* Bounds of the model *)

\* movements onto a column explored per game (movements onto a foundation
\* are not limited: there are at most 52 of them)
MaxColumnMoves == 1

\* shuffled decks dealt, out of the 52! orders a shuffle can produce
MaxDecks == 2

\* movements onto a column explored per game where runs of placed cards are
\* studied
MaxRunMoves == 3

\* get_char returns whatever single character the line holds: the model
\* enters the labels a..t and the characters up to this far outside them on
\* either side (main() uses the character only in its two range tests, which
\* every character below 'a' fails alike, and every character above 't')
MaxInputMargin == 2

---------------------------------------------------------------------------
(* Option<T> *)

None == << >>
Some(x) == << x >>
IsSome(o) == Len(o) = 1
Unwrap(o) == o[1]
UnwrapOr(o, d) == IF IsSome(o) THEN o[1] ELSE d

---------------------------------------------------------------------------
(* Outcomes of a call: it panics, or it returns a value *)

Ret(v) == [panic |-> FALSE, value |-> v]

\* x + y on Ranks: past 255 the debug build panics ("attempt to add with
\* overflow") and the release build wraps around
U8_add(x, y) ==
    IF x + y > U8_MAX
    THEN { [panic |-> TRUE, value |-> 0], Ret((x + y) % (U8_MAX + 1)) }
    ELSE { Ret(x + y) }

---------------------------------------------------------------------------
(* Suit, Color, Card *)

SuitIterator == <<"Spades", "Hearts", "Diamonds", "Clubs">>

Suit_color(suit) ==
    CASE suit \in {"Spades", "Clubs"}    -> "Black"
      [] suit \in {"Hearts", "Diamonds"} -> "Red"

Card_new(suit, rank) == [suit |-> suit, rank |-> rank]

Card_color(card) == Suit_color(card.suit)

\* Deck::new(): for each rank 1..13, the suits Spades, Hearts, Diamonds, Clubs
Deck_new ==
    [i \in 1..(NUM_SUITS * MAX_RANK) |->
        Card_new(SuitIterator[((i - 1) % NUM_SUITS) + 1], ((i - 1) \div NUM_SUITS) + 1)]

\* the 52 cards of a deck
AllCards == { Deck_new[i] : i \in DOMAIN Deck_new }

---------------------------------------------------------------------------
(* Foundation *)

Foundation_new(suit) == [suit |-> suit, top_rank |-> None]

\* faulty variant: the empty foundation counted as holding rank 1
Mut_Foundation_next_rank_default_one(f) == U8_add(UnwrapOr(f.top_rank, 1), 1)

Foundation_next_rank(f) == U8_add(UnwrapOr(f.top_rank, 0), 1)

\* faulty variant: any higher rank of the suit is accepted
Mut_Foundation_can_receive_any_higher(f, card) ==
    IF card.suit # f.suit THEN { Ret(FALSE) }
    ELSE { [panic |-> n.panic, value |-> ~n.panic /\ card.rank >= n.value]
           : n \in Foundation_next_rank(f) }

\* (card.suit() == self.suit) && (card.rank() == self.next_rank()): next_rank
\* is only asked for a card of the foundation's suit
Foundation_can_receive(f, card) ==
    IF card.suit # f.suit THEN { Ret(FALSE) }
    ELSE { [panic |-> n.panic, value |-> ~n.panic /\ card.rank = n.value]
           : n \in Foundation_next_rank(f) }

Foundation_receive(f, card) == [f EXCEPT !.top_rank = Some(card.rank)]

\* faulty variant: a nonempty foundation may give its top card
Mut_Foundation_can_give_card_when_nonempty(f) == IsSome(f.top_rank)

Foundation_can_give_card(f) == FALSE

\* The set of outcomes of give_card: a panic leaves the location as it is.
\* rank - 1 on a u8 of 0 panics in a debug build and wraps to 255 in a
\* release build.
Foundation_give_card(f) ==
    IF ~IsSome(f.top_rank)
    THEN { [panic |-> TRUE, loc |-> f, card |-> None] }
    ELSE LET rank == Unwrap(f.top_rank) IN
         IF rank = 0
         THEN { [panic |-> TRUE, loc |-> f, card |-> None],
                [panic |-> FALSE,
                 loc |-> [f EXCEPT !.top_rank = Some(255)],
                 card |-> Some(Card_new(f.suit, rank))] }
         ELSE { [panic |-> FALSE,
                 loc |-> [f EXCEPT !.top_rank = Some(rank - 1)],
                 card |-> Some(Card_new(f.suit, rank))] }

Foundation_active_card(f) ==
    IF IsSome(f.top_rank) THEN Some(Card_new(f.suit, Unwrap(f.top_rank)))
    ELSE None

---------------------------------------------------------------------------
(* Column *)

Column_new == [cards |-> << >>]

Column_can_give_card(c) == c.cards # << >>

\* faulty variant: the first (bottom) card is removed instead of the last
Mut_Column_give_card_from_bottom(c) ==
    IF c.cards = << >>
    THEN { [panic |-> TRUE, loc |-> c, card |-> None] }
    ELSE { [panic |-> FALSE,
            loc |-> [c EXCEPT !.cards = SubSeq(c.cards, 2, Len(c.cards))],
            card |-> Some(c.cards[1])] }

\* faulty variant: an empty column hands back no card instead of panicking
Mut_Column_give_card_empty_is_no_card(c) ==
    IF c.cards = << >>
    THEN { [panic |-> FALSE, loc |-> c, card |-> None] }
    ELSE { [panic |-> FALSE,
            loc |-> [c EXCEPT !.cards = SubSeq(c.cards, 1, Len(c.cards) - 1)],
            card |-> Some(c.cards[Len(c.cards)])] }

Column_give_card(c) ==
    IF c.cards = << >>
    THEN { [panic |-> TRUE, loc |-> c, card |-> None] }
    ELSE { [panic |-> FALSE,
            loc |-> [c EXCEPT !.cards = SubSeq(c.cards, 1, Len(c.cards) - 1)],
            card |-> Some(c.cards[Len(c.cards)])] }

Column_active_card(c) ==
    IF c.cards = << >> THEN None ELSE Some(c.cards[Len(c.cards)])

\* faulty variant: suits are compared instead of colors
Mut_Column_can_receive_by_suit(c, card) ==
    LET active == Column_active_card(c) IN
    IF IsSome(active)
    THEN IF Unwrap(active).suit = card.suit THEN { Ret(FALSE) }
         ELSE { [panic |-> n.panic,
                 value |-> ~n.panic /\ Unwrap(active).rank = n.value]
                : n \in U8_add(card.rank, 1) }
    ELSE { Ret(TRUE) }

\* (active_card.color() != card.color()) && (active_card.rank() == card.rank() + 1):
\* the sum is only taken for a card of the other color
Column_can_receive(c, card) ==
    LET active == Column_active_card(c) IN
    IF IsSome(active)
    THEN IF Card_color(Unwrap(active)) = Card_color(card) THEN { Ret(FALSE) }
         ELSE { [panic |-> n.panic,
                 value |-> ~n.panic /\ Unwrap(active).rank = n.value]
                : n \in U8_add(card.rank, 1) }
    ELSE { Ret(TRUE) }

Column_receive(c, card) == [c EXCEPT !.cards = Append(c.cards, card)]

---------------------------------------------------------------------------
(* SpotInHand *)

SpotInHand_new(card) == [card |-> Some(card)]

SpotInHand_can_give_card(s) == IsSome(s.card)

\* faulty variant: the card is returned but the cell is not cleared
Mut_SpotInHand_give_card_keeps(s) ==
    IF IsSome(s.card)
    THEN { [panic |-> FALSE, loc |-> s, card |-> s.card] }
    ELSE { [panic |-> TRUE, loc |-> s, card |-> None] }

SpotInHand_give_card(s) ==
    IF IsSome(s.card)
    THEN { [panic |-> FALSE, loc |-> [s EXCEPT !.card = None], card |-> s.card] }
    ELSE { [panic |-> TRUE, loc |-> s, card |-> None] }

\* faulty variant: an empty hand cell accepts a card
Mut_SpotInHand_can_receive_when_empty(s, card) == { Ret(~IsSome(s.card)) }

SpotInHand_can_receive(s, card) == { Ret(FALSE) }

SpotInHand_receive(s, card) == [s EXCEPT !.card = Some(card)]

SpotInHand_active_card(s) == s.card

---------------------------------------------------------------------------
(* trait Location: a location is a tagged value, dispatched on its kind *)

AsLocation(kind, val) == [kind |-> kind, val |-> val]

can_receive(loc, card) ==
    CASE loc.kind = "Foundation" -> Foundation_can_receive(loc.val, card)
      [] loc.kind = "Column"     -> Column_can_receive(loc.val, card)
      [] loc.kind = "SpotInHand" -> SpotInHand_can_receive(loc.val, card)

receive(loc, card) ==
    CASE loc.kind = "Foundation" -> AsLocation(loc.kind, Foundation_receive(loc.val, card))
      [] loc.kind = "Column"     -> AsLocation(loc.kind, Column_receive(loc.val, card))
      [] loc.kind = "SpotInHand" -> AsLocation(loc.kind, SpotInHand_receive(loc.val, card))

can_give_card(loc) ==
    CASE loc.kind = "Foundation" -> Foundation_can_give_card(loc.val)
      [] loc.kind = "Column"     -> Column_can_give_card(loc.val)
      [] loc.kind = "SpotInHand" -> SpotInHand_can_give_card(loc.val)

give_card(loc) ==
    LET outs == CASE loc.kind = "Foundation" -> Foundation_give_card(loc.val)
                  [] loc.kind = "Column"     -> Column_give_card(loc.val)
                  [] loc.kind = "SpotInHand" -> SpotInHand_give_card(loc.val)
    IN { [panic |-> o.panic, loc |-> AsLocation(loc.kind, o.loc), card |-> o.card]
         : o \in outs }

active_card(loc) ==
    CASE loc.kind = "Foundation" -> Foundation_active_card(loc.val)
      [] loc.kind = "Column"     -> Column_active_card(loc.val)
      [] loc.kind = "SpotInHand" -> SpotInHand_active_card(loc.val)

---------------------------------------------------------------------------
(* Deck (collaborator): a sequence of cards with positional retrieval *)

Deck_deal(deck, index) == deck[index + 1]

---------------------------------------------------------------------------
(* Board *)

\* faulty variant: the cards are dealt, but card_index is handed back unadvanced
RECURSIVE Mut_DealColumn_index_not_advanced(_, _, _, _)
Mut_DealColumn_index_not_advanced(deck, column, n, card_index) ==
    IF n = 0 THEN [column |-> column, card_index |-> card_index]
    ELSE [column |->
              Mut_DealColumn_index_not_advanced(deck,
                  Column_receive(column, Deck_deal(deck, card_index)),
                  n - 1, card_index + 1).column,
          card_index |-> card_index]

\* for _ in 1..=i { column.receive(deck.deal(card_index)); card_index += 1 }
RECURSIVE DealColumn(_, _, _, _)
DealColumn(deck, column, n, card_index) ==
    IF n = 0 THEN [column |-> column, card_index |-> card_index]
    ELSE DealColumn(deck, Column_receive(column, Deck_deal(deck, card_index)),
                    n - 1, card_index + 1)

\* (1..=NUM_COLUMNS).map(|i| ...).collect(), threading card_index
RECURSIVE DealColumns(_, _, _, _)
DealColumns(deck, i, card_index, columns) ==
    IF i > NUM_COLUMNS THEN [columns |-> columns, card_index |-> card_index]
    ELSE LET d == DealColumn(deck, Column_new, i, card_index)
         IN DealColumns(deck, i + 1, d.card_index, Append(columns, d.column))

\* (0..NUM_SPOTS_IN_HAND).map(|_| ...).collect(), threading card_index
RECURSIVE DealHand(_, _, _, _)
DealHand(deck, k, card_index, hand) ==
    IF k >= NUM_SPOTS_IN_HAND THEN hand
    ELSE DealHand(deck, k + 1, card_index + 1,
                  Append(hand, SpotInHand_new(Deck_deal(deck, card_index))))

\* a collected sequence as a 0-indexed StaticVec
StaticVec(seq) == [i \in 0..(Len(seq) - 1) |-> seq[i + 1]]

Board_new(deck) ==
    LET foundations == [i \in 1..Len(SuitIterator) |-> Foundation_new(SuitIterator[i])]
        cols == DealColumns(deck, 1, 0, << >>)
        hand == DealHand(deck, 0, cols.card_index, << >>)
    IN [foundations |-> StaticVec(foundations),
        columns     |-> StaticVec(cols.columns),
        hand        |-> StaticVec(hand)]

VictoryStates == {"Ongoing", "Won"}

\* faulty variant: one complete foundation is enough
Mut_victory_state_any(b) ==
    IF \E i \in DOMAIN b.foundations :
           UnwrapOr(b.foundations[i].top_rank, 0) = MAX_RANK
    THEN "Won" ELSE "Ongoing"

victory_state(b) ==
    IF \A i \in DOMAIN b.foundations :
           UnwrapOr(b.foundations[i].top_rank, 0) = MAX_RANK
    THEN "Won" ELSE "Ongoing"

\* the match arms that do not panic
LabelInRange(label) == label \in Ch_a..Ch_t

\* faulty variant: the foundation labels are resolved from the far end
Mut_location_at_foundations_reversed(b, label) ==
    CASE label \in Ch_a..Ch_d -> AsLocation("Foundation", b.foundations[Ch_d - label])
      [] label \in Ch_e..Ch_m -> AsLocation("Column", b.columns[label - Ch_e])
      [] label \in Ch_n..Ch_t -> AsLocation("SpotInHand", b.hand[label - Ch_n])

location_at(b, label) ==
    CASE label \in Ch_a..Ch_d -> AsLocation("Foundation", b.foundations[label - Ch_a])
      [] label \in Ch_e..Ch_m -> AsLocation("Column", b.columns[label - Ch_e])
      [] label \in Ch_n..Ch_t -> AsLocation("SpotInHand", b.hand[label - Ch_n])

\* the board after a write through the reference mut_location_at returns
mut_location_at(b, label, loc) ==
    CASE label \in Ch_a..Ch_d -> [b EXCEPT !.foundations[label - Ch_a] = loc.val]
      [] label \in Ch_e..Ch_m -> [b EXCEPT !.columns[label - Ch_e] = loc.val]
      [] label \in Ch_n..Ch_t -> [b EXCEPT !.hand[label - Ch_n] = loc.val]

Movement(origin, destination) == [origin |-> origin, destination |-> destination]

\* The set of outcomes of execute: [panic, board]. A panic aborts, with the
\* board as it was when the panic was raised.
\* faulty variant: the card is received at the destination, but the origin
\* is not written back and keeps it
Mut_execute_origin_keeps_card(b, movement) ==
    IF ~LabelInRange(movement.origin) THEN { [panic |-> TRUE, board |-> b] }
    ELSE UNION {
        IF g.panic THEN { [panic |-> TRUE, board |-> b] }
        ELSE IF ~LabelInRange(movement.destination)
             THEN { [panic |-> TRUE, board |-> b] }
             ELSE { [panic |-> FALSE,
                     board |-> mut_location_at(b, movement.destination,
                                   receive(location_at(b, movement.destination),
                                           Unwrap(g.card)))] }
        : g \in give_card(location_at(b, movement.origin)) }

execute(b, movement) ==
    IF ~LabelInRange(movement.origin) THEN { [panic |-> TRUE, board |-> b] }
    ELSE UNION {
        IF g.panic THEN { [panic |-> TRUE, board |-> b] }
        ELSE LET b1 == mut_location_at(b, movement.origin, g.loc) IN
             IF ~LabelInRange(movement.destination)
             THEN { [panic |-> TRUE, board |-> b1] }
             ELSE { [panic |-> FALSE,
                     board |-> mut_location_at(b1, movement.destination,
                                   receive(location_at(b1, movement.destination),
                                           Unwrap(g.card)))] }
        : g \in give_card(location_at(b, movement.origin)) }

\* faulty variant: the origin's can_give_card() is not consulted
Mut_permits_skips_give_gate(b, movement) ==
    LET origin == location_at(b, movement.origin)
        destination == location_at(b, movement.destination)
    IN IF IsSome(active_card(origin))
       THEN can_receive(destination, Unwrap(active_card(origin)))
       ELSE { Ret(FALSE) }

\* the outcomes of permits: can_receive is only asked when the origin can give
permits(b, movement) ==
    LET origin == location_at(b, movement.origin)
        destination == location_at(b, movement.destination)
    IN IF IsSome(active_card(origin))
       THEN IF can_give_card(origin)
            THEN can_receive(destination, Unwrap(active_card(origin)))
            ELSE { Ret(FALSE) }
       ELSE { Ret(FALSE) }

\* for destination_label in b'a'..=b'm': the movements pushed from this
\* destination label on, in order
RECURSIVE DestinationLoop(_, _, _, _)
DestinationLoop(b, origin_char, card, destination_label) ==
    IF destination_label > Ch_m THEN { Ret(<< >>) }
    ELSE UNION {
        IF r.panic THEN { [panic |-> TRUE, value |-> << >>] }
        ELSE { [panic |-> rest.panic,
                value |-> IF rest.panic THEN << >>
                          ELSE (IF r.value
                                THEN << Movement(origin_char, destination_label) >>
                                ELSE << >>) \o rest.value]
               : rest \in DestinationLoop(b, origin_char, card,
                                          destination_label + 1) }
        : r \in can_receive(location_at(b, destination_label), card) }

\* for origin_label in b'e'..=b't': the movements pushed from this origin
\* label on, in order
RECURSIVE OriginLoop(_, _)
OriginLoop(b, origin_label) ==
    IF origin_label > Ch_t THEN { Ret(<< >>) }
    ELSE LET origin == location_at(b, origin_label)
             pushed == IF ~IsSome(active_card(origin)) THEN { Ret(<< >>) }
                       ELSE IF can_give_card(origin)
                            THEN DestinationLoop(b, origin_label,
                                                 Unwrap(active_card(origin)), Ch_a)
                            ELSE { Ret(<< >>) }
         IN UNION {
                IF p.panic THEN { [panic |-> TRUE, value |-> << >>] }
                ELSE { [panic |-> rest.panic,
                        value |-> IF rest.panic THEN << >>
                                  ELSE p.value \o rest.value]
                       : rest \in OriginLoop(b, origin_label + 1) }
                : p \in pushed }

\* faulty variant: the origin loop starts at 'f'
Mut_permitted_moves_skips_e(b) == OriginLoop(b, Ch_e + 1)

permitted_moves(b) == OriginLoop(b, Ch_e)

---------------------------------------------------------------------------
(* The earlier, monolithic rule engine of src/src/main.rs: its own Foundation,
   Column, SpotInHand and Board, modelled from main.rs line by line. Its
   execute re-checks permits, and its deal pops the cards off the deck. *)

Legacy_Foundation_new(suit) == [suit |-> suit, top_rank |-> None]

Legacy_Foundation_next_rank(f) == U8_add(UnwrapOr(f.top_rank, 0), 1)

Legacy_Foundation_can_receive(f, card) ==
    IF card.suit # f.suit THEN { Ret(FALSE) }
    ELSE { [panic |-> n.panic, value |-> ~n.panic /\ card.rank = n.value]
           : n \in Legacy_Foundation_next_rank(f) }

Legacy_Foundation_receive(f, card) == [f EXCEPT !.top_rank = Some(card.rank)]

Legacy_Foundation_can_give_card(f) == FALSE

Legacy_Foundation_give_card(f) ==
    IF ~IsSome(f.top_rank)
    THEN { [panic |-> TRUE, loc |-> f, card |-> None] }
    ELSE LET rank == Unwrap(f.top_rank) IN
         IF rank = 0
         THEN { [panic |-> TRUE, loc |-> f, card |-> None],
                [panic |-> FALSE,
                 loc |-> [f EXCEPT !.top_rank = Some(255)],
                 card |-> Some([suit |-> f.suit, rank |-> rank])] }
         ELSE { [panic |-> FALSE,
                 loc |-> [f EXCEPT !.top_rank = Some(rank - 1)],
                 card |-> Some([suit |-> f.suit, rank |-> rank])] }

Legacy_Foundation_active_card(f) ==
    IF IsSome(f.top_rank) THEN Some([suit |-> f.suit, rank |-> Unwrap(f.top_rank)])
    ELSE None

Legacy_Column_new == [cards |-> << >>]

Legacy_Column_can_give_card(c) == c.cards # << >>

Legacy_Column_give_card(c) ==
    IF c.cards = << >>
    THEN { [panic |-> TRUE, loc |-> c, card |-> None] }
    ELSE { [panic |-> FALSE,
            loc |-> [c EXCEPT !.cards = SubSeq(c.cards, 1, Len(c.cards) - 1)],
            card |-> Some(c.cards[Len(c.cards)])] }

Legacy_Column_active_card(c) ==
    IF c.cards = << >> THEN None ELSE Some(c.cards[Len(c.cards)])

Legacy_Column_can_receive(c, card) ==
    LET active == Legacy_Column_active_card(c) IN
    IF IsSome(active)
    THEN IF Card_color(Unwrap(active)) = Card_color(card) THEN { Ret(FALSE) }
         ELSE { [panic |-> n.panic,
                 value |-> ~n.panic /\ Unwrap(active).rank = n.value]
                : n \in U8_add(card.rank, 1) }
    ELSE { Ret(TRUE) }

Legacy_Column_receive(c, card) == [c EXCEPT !.cards = Append(c.cards, card)]

Legacy_SpotInHand_new == [card |-> None]

Legacy_SpotInHand_can_give_card(s) == IsSome(s.card)

Legacy_SpotInHand_give_card(s) ==
    IF IsSome(s.card)
    THEN { [panic |-> FALSE, loc |-> [s EXCEPT !.card = None], card |-> s.card] }
    ELSE { [panic |-> TRUE, loc |-> s, card |-> None] }

Legacy_SpotInHand_can_receive(s, card) == { Ret(FALSE) }

Legacy_SpotInHand_receive(s, card) == [s EXCEPT !.card = Some(card)]

Legacy_SpotInHand_active_card(s) == s.card

Legacy_can_receive(loc, card) ==
    CASE loc.kind = "Foundation" -> Legacy_Foundation_can_receive(loc.val, card)
      [] loc.kind = "Column"     -> Legacy_Column_can_receive(loc.val, card)
      [] loc.kind = "SpotInHand" -> Legacy_SpotInHand_can_receive(loc.val, card)

Legacy_receive(loc, card) ==
    CASE loc.kind = "Foundation" ->
             AsLocation(loc.kind, Legacy_Foundation_receive(loc.val, card))
      [] loc.kind = "Column"     ->
             AsLocation(loc.kind, Legacy_Column_receive(loc.val, card))
      [] loc.kind = "SpotInHand" ->
             AsLocation(loc.kind, Legacy_SpotInHand_receive(loc.val, card))

Legacy_can_give_card(loc) ==
    CASE loc.kind = "Foundation" -> Legacy_Foundation_can_give_card(loc.val)
      [] loc.kind = "Column"     -> Legacy_Column_can_give_card(loc.val)
      [] loc.kind = "SpotInHand" -> Legacy_SpotInHand_can_give_card(loc.val)

Legacy_give_card(loc) ==
    LET outs == CASE loc.kind = "Foundation" -> Legacy_Foundation_give_card(loc.val)
                  [] loc.kind = "Column"     -> Legacy_Column_give_card(loc.val)
                  [] loc.kind = "SpotInHand" -> Legacy_SpotInHand_give_card(loc.val)
    IN { [panic |-> o.panic, loc |-> AsLocation(loc.kind, o.loc), card |-> o.card]
         : o \in outs }

Legacy_active_card(loc) ==
    CASE loc.kind = "Foundation" -> Legacy_Foundation_active_card(loc.val)
      [] loc.kind = "Column"     -> Legacy_Column_active_card(loc.val)
      [] loc.kind = "SpotInHand" -> Legacy_SpotInHand_active_card(loc.val)

\* Deck::deal(): pop the last card; [card, cards left]
Legacy_Deck_deal(cards) ==
    [card |-> cards[Len(cards)], cards |-> SubSeq(cards, 1, Len(cards) - 1)]

\* for _ in 1..(i + 2) { column.receive(deck.deal()) }
RECURSIVE Legacy_DealColumn(_, _, _)
Legacy_DealColumn(cards, column, n) ==
    IF n = 0 THEN [column |-> column, cards |-> cards]
    ELSE LET d == Legacy_Deck_deal(cards) IN
         Legacy_DealColumn(d.cards, Legacy_Column_receive(column, d.card), n - 1)

\* for (i, column) in columns.iter_mut().enumerate(), i from 0
RECURSIVE Legacy_DealColumns(_, _, _)
Legacy_DealColumns(cards, i, columns) ==
    IF i >= NUM_COLUMNS THEN [columns |-> columns, cards |-> cards]
    ELSE LET d == Legacy_DealColumn(cards, Legacy_Column_new, i + 1)
         IN Legacy_DealColumns(d.cards, i + 1, Append(columns, d.column))

\* for spot in hand.iter_mut() { spot.card = Some(deck.deal()) }
RECURSIVE Legacy_DealHand(_, _, _)
Legacy_DealHand(cards, k, hand) ==
    IF k >= NUM_SPOTS_IN_HAND THEN hand
    ELSE LET d == Legacy_Deck_deal(cards) IN
         Legacy_DealHand(d.cards, k + 1,
                         Append(hand, [Legacy_SpotInHand_new EXCEPT !.card = Some(d.card)]))

\* Board::new() of main.rs, from the cards of the deck as shuffled
Legacy_Board_new(cards) ==
    LET foundations == << Legacy_Foundation_new("Spades"),
                          Legacy_Foundation_new("Hearts"),
                          Legacy_Foundation_new("Diamonds"),
                          Legacy_Foundation_new("Clubs") >>
        cols == Legacy_DealColumns(cards, 0, << >>)
        hand == Legacy_DealHand(cols.cards, 0, << >>)
    IN [foundations |-> StaticVec(foundations),
        columns     |-> StaticVec(cols.columns),
        hand        |-> StaticVec(hand)]

Legacy_location_at(b, label) ==
    CASE label \in Ch_a..Ch_d -> AsLocation("Foundation", b.foundations[label - Ch_a])
      [] label \in Ch_e..Ch_m -> AsLocation("Column", b.columns[label - Ch_e])
      [] label \in Ch_n..Ch_t -> AsLocation("SpotInHand", b.hand[label - Ch_n])

Legacy_mut_location_at(b, label, loc) ==
    CASE label \in Ch_a..Ch_d -> [b EXCEPT !.foundations[label - Ch_a] = loc.val]
      [] label \in Ch_e..Ch_m -> [b EXCEPT !.columns[label - Ch_e] = loc.val]
      [] label \in Ch_n..Ch_t -> [b EXCEPT !.hand[label - Ch_n] = loc.val]

Legacy_permits(b, m) ==
    LET origin == Legacy_location_at(b, m.origin)
        destination == Legacy_location_at(b, m.destination)
    IN IF IsSome(Legacy_active_card(origin))
       THEN IF Legacy_can_give_card(origin)
            THEN Legacy_can_receive(destination,
                                    Unwrap(Legacy_active_card(origin)))
            ELSE { Ret(FALSE) }
       ELSE { Ret(FALSE) }

\* The set of outcomes of main.rs's execute: permits is asked first (it panics
\* on a label outside the range), and a refused movement panics "Illegal move".
Legacy_execute(b, m) ==
    IF ~LabelInRange(m.origin) \/ ~LabelInRange(m.destination)
    THEN { [panic |-> TRUE, board |-> b] }
    ELSE UNION {
        IF p.panic \/ ~p.value
        THEN { [panic |-> TRUE, board |-> b] }
        ELSE UNION {
            IF g.panic THEN { [panic |-> TRUE, board |-> b] }
            ELSE LET b1 == Legacy_mut_location_at(b, m.origin, g.loc) IN
                 { [panic |-> FALSE,
                    board |-> Legacy_mut_location_at(b1, m.destination,
                                  Legacy_receive(Legacy_location_at(b1, m.destination),
                                                 Unwrap(g.card)))] }
            : g \in Legacy_give_card(Legacy_location_at(b, m.origin)) }
        : p \in Legacy_permits(b, m) }

---------------------------------------------------------------------------
(* Decks dealt in the model: orders a shuffle can produce. The game can be
   won from the first two. One row per column e..m
   (bottom card first), then the hand cells n..t. *)

Deck_shuffled_1 ==
    LET S(r) == Card_new("Spades", r)
        H(r) == Card_new("Hearts", r)
        D(r) == Card_new("Diamonds", r)
        C(r) == Card_new("Clubs", r)
    IN << C(13),
          C(6),  D(2),
          C(9),  C(1),  S(13),
          C(10), S(7),  S(6),  H(7),
          C(7),  S(11), S(8),  S(5),  D(9),
          C(8),  S(12), S(10), S(9),  S(1),  D(13),
          C(11), D(12), D(11), D(8),  D(5),  D(4),  D(3),
          C(12), S(2),  D(6),  H(8),  H(4),  H(3),  H(2),  H(1),
          C(5),  C(2),  D(1),  H(13), H(12), H(11), H(10), H(9), H(6),
          D(10), H(5),  S(4),  C(3),  C(4),  D(7),  S(3) >>

Deck_shuffled_2 ==
    LET S(r) == Card_new("Spades", r)
        H(r) == Card_new("Hearts", r)
        D(r) == Card_new("Diamonds", r)
        C(r) == Card_new("Clubs", r)
    IN << C(11),
          S(13), C(13),
          C(9),  C(2),  D(2),
          C(4),  S(4),  D(8),  H(1),
          C(8),  D(12), D(11), D(10), D(9),
          C(12), C(5),  S(8),  S(7),  S(1),  D(13),
          C(10), S(2),  D(7),  D(6),  D(5),  D(4),  D(3),
          C(7),  C(1),  S(12), S(5),  H(8),  H(6),  H(3),  H(2),
          C(6),  S(11), D(1),  H(13), H(12), H(11), H(10), H(9), H(5),
          S(9),  S(3),  S(10), S(6),  H(7),  C(3),  H(4) >>

(* Decks on which columns empty early and cards are placed on placed cards:
   column e holds an ace, and a hand card fits on another hand card. *)

Deck_shuffled_3 ==
    LET S(r) == Card_new("Spades", r)
        H(r) == Card_new("Hearts", r)
        D(r) == Card_new("Diamonds", r)
        C(r) == Card_new("Clubs", r)
    IN << S(1),
          D(8), S(3),
          S(11), S(5), S(13),
          H(12), H(3), D(10), C(13),
          H(4), H(6), D(1), H(13), H(10),
          C(12), S(4), S(2), S(7), C(7), C(5),
          S(9), D(4), C(6), S(10), C(10), C(8), D(11),
          D(13), H(9), C(9), S(12), C(11), D(12), D(7), H(5),
          D(3), C(1), D(6), C(4), C(2), S(8), S(6), H(7), D(5),
          C(3), H(2), H(1), D(2), H(11), D(9), H(8) >>

Deck_shuffled_4 ==
    LET S(r) == Card_new("Spades", r)
        H(r) == Card_new("Hearts", r)
        D(r) == Card_new("Diamonds", r)
        C(r) == Card_new("Clubs", r)
    IN << S(1),
          H(5), S(3),
          D(1), C(4), D(7),
          H(9), H(8), S(7), C(10),
          D(9), S(6), S(2), H(12), S(9),
          S(12), H(3), C(1), S(11), D(5), C(12),
          H(4), D(10), H(10), D(13), D(3), S(4), H(7),
          C(8), D(12), H(13), H(11), C(6), D(6), C(11), S(5),
          D(8), S(8), C(13), D(4), C(2), D(11), H(6), S(13), C(5),
          C(3), H(2), H(1), D(2), C(7), C(9), S(10) >>

Deck_shuffled_5 ==
    LET S(r) == Card_new("Spades", r)
        H(r) == Card_new("Hearts", r)
        D(r) == Card_new("Diamonds", r)
        C(r) == Card_new("Clubs", r)
    IN << S(1),
          C(10), S(3),
          D(5), H(11), C(7),
          C(1), H(13), C(9), C(8),
          D(13), D(8), D(4), H(12), S(5),
          C(4), S(2), S(11), D(11), C(11), D(3),
          S(4), D(6), D(10), D(9), C(2), C(5), C(6),
          H(8), H(7), S(12), H(10), H(5), H(9), S(7), S(8),
          S(10), H(4), H(3), D(1), D(12), H(6), D(7), C(12), S(6),
          C(3), H(2), H(1), D(2), S(9), S(13), C(13) >>

\* the shuffled decks, in the order in which the model takes them up
DeckList == << Deck_shuffled_1, Deck_shuffled_2, Deck_shuffled_3 >>

\* Deck::shuffle can leave the 52 cards in any order: the model deals the
\* first MaxDecks orders of DeckList
Decks == { DeckList[i] : i \in 1..MaxDecks }

\* the shuffled decks of the games in which runs are built
RunDeckList == << Deck_shuffled_3, Deck_shuffled_4, Deck_shuffled_5 >>

RunDecks == { RunDeckList[i] : i \in 1..MaxDecks }

\* the Vec of cards main.rs's deck holds after a shuffle from which pop()
\* deals the cards in the order of `deck`
PoppedIn(deck) == [i \in 1..Len(deck) |-> deck[Len(deck) + 1 - i]]

---------------------------------------------------------------------------
(* The game: a deal, then movements executed while permits holds *)

Labels == Ch_a..Ch_t

\* labels next to the range on either side
OutsideLabels == ((Ch_a - 2)..(Ch_a - 1)) \cup ((Ch_t + 1)..(Ch_t + 2))

Movements == { Movement(o, d) : o \in Labels, d \in Labels }

IsFoundationLabel(label) == label \in Ch_a..Ch_d
IsColumnLabel(label) == label \in Ch_e..Ch_m
IsHandLabel(label) == label \in Ch_n..Ch_t

\* let mut m = Move { origin: 'a', destination: 'a' }; // dummy
DummyMove == Movement(Ch_a, Ch_a)

\* the two rule engines are started from the same deal and then given the
\* same movements; the driver loop of main() stands still in this game
Init ==
    /\ dealt \in Decks
    /\ board = Board_new(dealt)
    /\ legacy = Legacy_Board_new(PoppedIn(dealt))
    /\ panicked = FALSE
    /\ pc = "api"
    /\ move = DummyMove
    /\ received = [i \in 0..(NUM_SUITS - 1) |-> << >>]
    /\ dealtLeft = [j \in 0..(NUM_COLUMNS - 1) |-> j + 1]
    /\ columnMoves = 0
    /\ placedLog = << >>

\* the dealt cards left in a column once the column at `label` gave a card
DealtLeftAfterGive(b, label) ==
    IF IsColumnLabel(label)
    THEN [dealtLeft EXCEPT ![label - Ch_e] =
             IF Len(b.columns[label - Ch_e].cards) - 1 < @
             THEN Len(b.columns[label - Ch_e].cards) - 1 ELSE @]
    ELSE dealtLeft

\* the log once execute has run mv on b: a card taken off a column above
\* its dealt cards was placed there, and a card put on a column is placed
PlacedLogAfter(b, mv) ==
    LET card == Unwrap(active_card(location_at(b, mv.origin)))
        lifted == IF IsColumnLabel(mv.origin)
                     /\ Len(b.columns[mv.origin - Ch_e].cards)
                            > dealtLeft[mv.origin - Ch_e]
                  THEN Append(placedLog, [op |-> "lifted", label |-> mv.origin,
                                          card |-> card])
                  ELSE placedLog
    IN IF IsColumnLabel(mv.destination)
       THEN Append(lifted, [op |-> "placed", label |-> mv.destination,
                            card |-> card])
       ELSE lifted

\* if board.permits(m) { board.execute(m) }: nothing happens when permits
\* returns false, and a panic of permits ends the game; a game holds at most
\* `limit` movements onto a column
PlayUpTo(mv, limit) ==
    /\ pc = "api"
    /\ ~panicked
    /\ IsColumnLabel(mv.destination) => columnMoves < limit
    /\ \E p \in permits(board, mv) :
          IF p.panic
          THEN /\ panicked' = TRUE
               /\ UNCHANGED <<board, legacy, received, dealtLeft, columnMoves>>
          ELSE /\ p.value
               /\ \E out \in execute(board, mv),
                     lout \in Legacy_execute(legacy, mv) :
                     /\ board' = out.board
                     /\ legacy' = lout.board
                     /\ panicked' = (out.panic \/ lout.panic)
               /\ received' =
                     IF IsFoundationLabel(mv.destination)
                     THEN [received EXCEPT ![mv.destination - Ch_a] =
                              Append(@, Unwrap(active_card(
                                            location_at(board, mv.origin))))]
                     ELSE received
               /\ dealtLeft' = DealtLeftAfterGive(board, mv.origin)
               /\ columnMoves' = IF IsColumnLabel(mv.destination)
                                 THEN columnMoves + 1 ELSE columnMoves
    /\ UNCHANGED <<pc, move, dealt>>

\* (the log of placed cards is not kept in these games)
Play(mv) == PlayUpTo(mv, MaxColumnMoves) /\ UNCHANGED placedLog

Next == \E mv \in Movements : Play(mv)

Spec == Init /\ [][Next]_vars

\* the games in which runs are built: decks on which columns empty, and
\* more movements onto a column
InitRuns ==
    /\ dealt \in RunDecks
    /\ board = Board_new(dealt)
    /\ legacy = Legacy_Board_new(PoppedIn(dealt))
    /\ panicked = FALSE
    /\ pc = "api"
    /\ move = DummyMove
    /\ received = [i \in 0..(NUM_SUITS - 1) |-> << >>]
    /\ dealtLeft = [j \in 0..(NUM_COLUMNS - 1) |-> j + 1]
    /\ columnMoves = 0
    /\ placedLog = << >>

PlayRun(mv) ==
    /\ PlayUpTo(mv, MaxRunMoves)
    /\ placedLog' = IF panicked' THEN placedLog ELSE PlacedLogAfter(board, mv)

NextRuns == \E mv \in Movements : PlayRun(mv)

SpecRuns == InitRuns /\ [][NextRuns]_vars

---------------------------------------------------------------------------
(* Helpers of the properties *)

\* the call returns true, whichever build runs it
Yes(outcomes) == outcomes = { Ret(TRUE) }

\* the call returns false, whichever build runs it
No(outcomes) == outcomes = { Ret(FALSE) }

\* the call returns, and returns the same boolean in every build
Decided(outcomes) == Yes(outcomes) \/ No(outcomes)

\* the call returns, and returns the same value in every build
Returns(outcomes) == \E o \in outcomes : outcomes = { Ret(o.value) }

\* the value the call returns
Returned(outcomes) == (CHOOSE o \in outcomes : ~o.panic).value

\* a foundation's top rank as a number, 0 when it is empty
TopOf(f) == IF IsSome(f.top_rank) THEN Unwrap(f.top_rank) ELSE 0

\* how many times a card is on the board: a foundation with top rank r holds
\* ranks 1..r of its suit, a column its sequence, a hand cell its stored card
CardCount(b, card) ==
    Cardinality({ i \in DOMAIN b.foundations :
                     /\ b.foundations[i].suit = card.suit
                     /\ IsSome(b.foundations[i].top_rank)
                     /\ card.rank <= Unwrap(b.foundations[i].top_rank) })
    + Cardinality(UNION { { <<i, k>> : k \in { k \in 1..Len(b.columns[i].cards) :
                                                   b.columns[i].cards[k] = card } }
                          : i \in DOMAIN b.columns })
    + Cardinality({ i \in DOMAIN b.hand : b.hand[i].card = Some(card) })

OccupiedHandCells(b) == Cardinality({ i \in DOMAIN b.hand : IsSome(b.hand[i].card) })

EmptyColumns(b) == { i \in DOMAIN b.columns : b.columns[i].cards = << >> }

---------------------------------------------------------------------------
(* C1 - Card conservation: after the deal and after every movement executed
   while permits holds, each of the 52 (suit, rank) cards is on the board
   exactly once. *)
C1_CardConservation ==
    \A card \in AllCards : CardCount(board, card) = 1

\* a game in which a foundation, a column and a hand cell have all taken part
C1_Witness ==
    /\ columnMoves >= 1
    /\ \E i \in DOMAIN board.foundations : TopOf(board.foundations[i]) >= 2
    /\ OccupiedHandCells(board) < NUM_SPOTS_IN_HAND

(* C2 - permits(movement) is true iff the origin has an active card, the
   origin's can_give_card() is true and the destination's can_receive of that
   card is true; it is false whenever the origin is empty. *)
C2_PermitsLaw ==
    \A m \in Movements :
        LET origin == location_at(board, m.origin)
            destination == location_at(board, m.destination)
            permitted == permits(board, m)
        IN /\ Decided(permitted)
           /\ Yes(permitted) <=>
                 ( /\ active_card(origin) # None
                   /\ can_give_card(origin)
                   /\ Yes(can_receive(destination, Unwrap(active_card(origin)))) )
           /\ active_card(origin) = None => No(permitted)

\* one state with a permitted movement, a movement refused by the destination
\* alone, a movement refused by the give gate alone, and an emptied origin
C2_Witness ==
    /\ \E m \in Movements : Yes(permits(board, m))
    /\ \E m \in Movements :
          LET origin == location_at(board, m.origin) IN
          /\ active_card(origin) # None
          /\ can_give_card(origin)
          /\ No(can_receive(location_at(board, m.destination), Unwrap(active_card(origin))))
    /\ \E m \in Movements :
          LET origin == location_at(board, m.origin) IN
          /\ active_card(origin) # None
          /\ ~can_give_card(origin)
          /\ Yes(can_receive(location_at(board, m.destination), Unwrap(active_card(origin))))
    /\ \E l \in Ch_e..Ch_t : active_card(location_at(board, l)) = None

(* C3 - Enumeration soundness and completeness: the movements permitted_moves
   returns are exactly the (origin in e..t, destination in a..m) pairs for
   which permits holds. *)
C3_Enumeration ==
    LET moves == Returned(permitted_moves(board)) IN
    /\ Returns(permitted_moves(board))
    /\ { moves[k] : k \in 1..Len(moves) }
      = { m \in Movements : /\ m.origin \in Ch_e..Ch_t
                            /\ m.destination \in Ch_a..Ch_m
                            /\ Yes(permits(board, m)) }

\* the enumeration returns movements onto a foundation and onto a column, from
\* a column and from a hand cell, after both kinds of movement have been played
C3_Witness ==
    LET moves == Returned(permitted_moves(board)) IN
    /\ columnMoves >= 1
    /\ \E k \in 1..Len(moves) : IsFoundationLabel(moves[k].destination)
    /\ \E k \in 1..Len(moves) : IsColumnLabel(moves[k].destination)
                                 /\ IsHandLabel(moves[k].origin)
    /\ \E k \in 1..Len(moves) : IsColumnLabel(moves[k].origin)
    /\ \E i \in DOMAIN board.foundations : TopOf(board.foundations[i]) >= 1

(* C4 - permits is false for every movement whose origin is a foundation and
   for every movement whose destination is a hand cell, so every movement for
   which permits holds over a..t x a..t has its origin in e..t and its
   destination in a..m. *)
C4_NoFoundationOriginNoHandDestination ==
    /\ \A m \in Movements :
          (IsFoundationLabel(m.origin) \/ IsHandLabel(m.destination))
              => No(permits(board, m))
    /\ { m \in Movements : Yes(permits(board, m)) }
          \subseteq { m \in Movements : /\ m.origin \in Ch_e..Ch_t
                                        /\ m.destination \in Ch_a..Ch_m }

\* a foundation holds a card that a column would accept, and a hand cell is
\* empty while another location has a card it could give
C4_Witness ==
    /\ \E i \in DOMAIN board.foundations, j \in DOMAIN board.columns :
          /\ IsSome(board.foundations[i].top_rank)
          /\ Yes(Column_can_receive(board.columns[j],
                                Unwrap(Foundation_active_card(board.foundations[i]))))
    /\ \E i \in DOMAIN board.hand : board.hand[i].card = None
    /\ \E j \in DOMAIN board.columns : Column_can_give_card(board.columns[j])

(* C5 - Win detection: victory_state is Won iff each of the 4 foundations has
   top rank 13, and Ongoing otherwise; along the game it turns from Ongoing to
   Won in exactly the step in which the last foundation below 13 receives its
   rank-13 card. *)
C5_WonIffAllThirteen ==
    /\ victory_state(board) \in VictoryStates
    /\ victory_state(board) = "Won" <=>
          \A i \in DOMAIN board.foundations :
              board.foundations[i].top_rank = Some(MAX_RANK)
    /\ (\E i \in DOMAIN board.foundations :
           \/ board.foundations[i].top_rank = None
           \/ TopOf(board.foundations[i]) < MAX_RANK)
          => victory_state(board) = "Ongoing"

C5_FirstWonStep ==
    LET lastReceives13 ==
            \E i \in DOMAIN board.foundations :
                /\ TopOf(board.foundations[i]) = MAX_RANK - 1
                /\ board'.foundations[i].top_rank = Some(MAX_RANK)
                /\ \A j \in DOMAIN board.foundations \ {i} :
                       /\ board.foundations[j].top_rank = Some(MAX_RANK)
                       /\ board'.foundations[j] = board.foundations[j]
    IN (victory_state(board) = "Ongoing" /\ lastReceives13
            <=> victory_state(board') = "Won" /\ victory_state(board) # "Won")

\* C5: the state law holds in every state and the step law in every step
C5_WinDetection == []C5_WonIffAllThirteen /\ [][C5_FirstWonStep]_vars

C5_Witness == victory_state(board) = "Won"

(* C6 - Foundation acceptance law: a foundation accepts a card iff the card
   has the foundation's suit and its rank is 1 when the foundation is empty,
   or the current top + 1 otherwise. *)
C6_FoundationAcceptance ==
    \A i \in DOMAIN board.foundations, card \in AllCards :
        LET f == board.foundations[i] IN
        /\ Decided(Foundation_can_receive(f, card))
        /\ Yes(Foundation_can_receive(f, card)) <=>
            /\ card.suit = f.suit
            /\ card.rank = (IF f.top_rank = None THEN 1 ELSE Unwrap(f.top_rank) + 1)

\* an empty foundation, a partly built one and a complete one, side by side
C6_Witness ==
    /\ \E i \in DOMAIN board.foundations : board.foundations[i].top_rank = None
    /\ \E i \in DOMAIN board.foundations :
          TopOf(board.foundations[i]) \in 2..(MAX_RANK - 1)
    /\ \E i \in DOMAIN board.foundations : TopOf(board.foundations[i]) = MAX_RANK

(* C7 - Column acceptance law: an empty column accepts every card; a nonempty
   column accepts a card iff its color differs from the active (last) card's
   color and its rank is the active card's rank minus 1. *)
C7_ColumnAcceptance ==
    \A j \in DOMAIN board.columns, card \in AllCards :
        LET c == board.columns[j] IN
        /\ c.cards = << >> => Yes(Column_can_receive(c, card))
        /\ Decided(Column_can_receive(c, card))
        /\ c.cards # << >> =>
              ( Yes(Column_can_receive(c, card)) <=>
                  /\ Card_color(card) # Card_color(c.cards[Len(c.cards)])
                  /\ card.rank = c.cards[Len(c.cards)].rank - 1 )

\* an empty column, and a column whose active card was placed there by a
\* movement and which accepts some cards and refuses others of the right rank
C7_Witness ==
    /\ columnMoves >= 1
    /\ EmptyColumns(board) # {}
    /\ \E j \in DOMAIN board.columns, c1 \in AllCards, c2 \in AllCards :
          /\ board.columns[j].cards # << >>
          /\ c1.rank = c2.rank
          /\ Yes(Column_can_receive(board.columns[j], c1))
          /\ No(Column_can_receive(board.columns[j], c2))

(* C8 - Hand-cell law: a hand cell accepts no card in any state, and a hand
   cell that is empty stays empty (no active card, can_give_card false) in
   every later state; the number of occupied hand cells never increases. *)
C8_HandNeverReceives ==
    \A i \in DOMAIN board.hand, card \in AllCards :
        No(SpotInHand_can_receive(board.hand[i], card))

C8_HandStaysEmpty ==
    /\ \A i \in DOMAIN board.hand :
          board.hand[i].card = None =>
              /\ board'.hand[i].card = None
              /\ SpotInHand_active_card(board'.hand[i]) = None
              /\ ~SpotInHand_can_give_card(board'.hand[i])
    /\ OccupiedHandCells(board') <= OccupiedHandCells(board)

\* C8: no hand cell ever accepts a card, and an empty hand cell stays empty
C8_HandCellLaw == []C8_HandNeverReceives /\ [][C8_HandStaysEmpty]_vars

\* a hand cell given away first is still empty after further hand cells gave
\* their cards and a movement onto a column was played, while cards remain
\* to be moved from columns and from the hand
C8_Witness ==
    /\ OccupiedHandCells(board) \in 1..(NUM_SPOTS_IN_HAND - 2)
    /\ columnMoves >= 1
    /\ \E j \in DOMAIN board.columns : board.columns[j].cards # << >>

(* C9 - Foundation ordering invariant: each foundation's top rank is absent
   or a value in 1..13 reached by receiving the ranks 1, 2, ..., top of its
   own suit in that order; the top rank never decreases and changes by +1. *)
C9_ReceivedInOrder ==
    \A i \in DOMAIN board.foundations :
        LET f == board.foundations[i] IN
        \/ f.top_rank = None /\ received[i] = << >>
        \/ /\ IsSome(f.top_rank)
           /\ Unwrap(f.top_rank) \in 1..MAX_RANK
           /\ received[i] = [k \in 1..Unwrap(f.top_rank) |-> Card_new(f.suit, k)]

C9_TopStepsByOne ==
    \A i \in DOMAIN board.foundations :
        \/ board'.foundations[i] = board.foundations[i]
        \/ /\ board'.foundations[i].suit = board.foundations[i].suit
           /\ board'.foundations[i].top_rank = Some(TopOf(board.foundations[i]) + 1)

\* C9: every top rank was reached in order, and moves by +1 per step
C9_FoundationOrdering == []C9_ReceivedInOrder /\ [][C9_TopStepsByOne]_vars

C9_Witness ==
    /\ \E i \in DOMAIN board.foundations : Len(received[i]) >= 3
    /\ \E i \in DOMAIN board.foundations : Len(received[i]) = 0
    /\ columnMoves >= 1

(* C10 - Effect and frame of a permitted move: whenever permits holds, origin
   and destination differ, and execute removes exactly the origin's active
   card (the card beneath becomes active, or none; an emptied column accepts
   any card), makes it the destination's active card (a foundation then
   accepts only the next rank of its suit) and leaves the other 18 locations
   unchanged. *)
C10_EffectAndFrame ==
    \A m \in Movements :
        Yes(permits(board, m)) =>
            LET origin == location_at(board, m.origin)
                destination == location_at(board, m.destination)
                card == Unwrap(active_card(origin))
            IN /\ m.origin # m.destination
               /\ Cardinality(execute(board, m)) = 1
               /\ \A out \in execute(board, m) :
                     LET origin2 == location_at(out.board, m.origin)
                         destination2 == location_at(out.board, m.destination)
                     IN /\ ~out.panic
                        \* the origin lost its active card and nothing else
                        /\ IsColumnLabel(m.origin) =>
                              /\ Append(origin2.val.cards, card) = origin.val.cards
                              /\ active_card(origin2) =
                                    (IF Len(origin.val.cards) = 1 THEN None
                                     ELSE Some(origin.val.cards[Len(origin.val.cards) - 1]))
                              /\ Len(origin.val.cards) = 1 =>
                                    \A c \in AllCards : Yes(can_receive(origin2, c))
                        /\ IsHandLabel(m.origin) =>
                              /\ origin2.val.card = None
                              /\ active_card(origin2) = None
                        /\ ~IsFoundationLabel(m.origin)
                        \* the destination gained the card and nothing else
                        /\ active_card(destination2) = Some(card)
                        /\ IsColumnLabel(m.destination) =>
                              destination2.val.cards = Append(destination.val.cards, card)
                        /\ IsFoundationLabel(m.destination) =>
                              /\ destination2.val.suit = destination.val.suit
                              /\ destination2.val.top_rank = Some(card.rank)
                              /\ \A c \in AllCards :
                                    /\ Decided(can_receive(destination2, c))
                                    /\ Yes(can_receive(destination2, c)) <=>
                                          c = Card_new(card.suit, card.rank + 1)
                        /\ ~IsHandLabel(m.destination)
                        \* the frame
                        /\ \A l \in Labels \ {m.origin, m.destination} :
                              location_at(out.board, l) = location_at(board, l)

\* after movements onto a column and onto a foundation, a one-card column may
\* give its card to a foundation and some card may move onto a column
C10_Witness ==
    /\ columnMoves >= 1
    /\ \E i \in DOMAIN board.foundations : TopOf(board.foundations[i]) >= 1
    /\ \E m \in Movements :
          /\ Yes(permits(board, m))
          /\ IsColumnLabel(m.origin)
          /\ Len(location_at(board, m.origin).val.cards) = 1
          /\ IsFoundationLabel(m.destination)
    /\ \E m \in Movements :
          /\ Yes(permits(board, m))
          /\ IsColumnLabel(m.destination)

---------------------------------------------------------------------------
(* C11: deal integrity. Before any movement the board is as Board::new made
   it from the dealt deck: four empty foundations in the order Spades,
   Hearts, Diamonds, Clubs; nine columns, the i-th (i = 1..9) holding the i
   cards at deck positions i(i-1)/2 .. i(i+1)/2 - 1, bottom to top; seven hand
   cells holding the cards at positions 45..51 in order. The board of main.rs
   holds the same cards, positions being counted in the order its deck pops
   them. *)

NothingMovedYet ==
    /\ columnMoves = 0
    /\ \A i \in DOMAIN received : received[i] = << >>

\* the card at the 0-based position of the dealt deck
DeckPosition(position) == dealt[position + 1]

\* the card main.rs's deck pops as its (position + 1)-th
PoppedPosition(position) == PoppedIn(dealt)[Len(dealt) - position]

C11_DealIntegrity ==
    NothingMovedYet =>
        /\ DOMAIN board.foundations = 0..3
        /\ board.foundations[0] = [suit |-> "Spades", top_rank |-> None]
        /\ board.foundations[1] = [suit |-> "Hearts", top_rank |-> None]
        /\ board.foundations[2] = [suit |-> "Diamonds", top_rank |-> None]
        /\ board.foundations[3] = [suit |-> "Clubs", top_rank |-> None]
        /\ DOMAIN board.columns = 0..8
        /\ \A i \in 1..9 :
              /\ Len(board.columns[i - 1].cards) = i
              /\ \A k \in 1..i :
                    /\ board.columns[i - 1].cards[k]
                          = DeckPosition((i * (i - 1)) \div 2 + k - 1)
                    /\ legacy.columns[i - 1].cards[k]
                          = PoppedPosition((i * (i - 1)) \div 2 + k - 1)
              /\ (i * (i - 1)) \div 2 + i - 1 = (i * (i + 1)) \div 2 - 1
        /\ DOMAIN board.hand = 0..6
        /\ \A k \in 0..6 :
              /\ board.hand[k].card = Some(DeckPosition(45 + k))
              /\ legacy.hand[k].card = Some(PoppedPosition(45 + k))
        /\ legacy.foundations = board.foundations

C11_Witness ==
    /\ NothingMovedYet
    /\ dealt = Deck_shuffled_2
    /\ Len(board.columns[8].cards) = 9
    /\ board.hand[6].card = Some(dealt[52])

---------------------------------------------------------------------------
(* C12: no partial move. *)

\* the cards a location holds, lowest first: a foundation holds the ranks up
\* to its top, a hand cell at most one card
Held(b, label) ==
    LET loc == location_at(b, label) IN
    CASE loc.kind = "Foundation" ->
             [k \in 1..TopOf(loc.val) |-> Card_new(loc.val.suit, k)]
      [] loc.kind = "Column" -> loc.val.cards
      [] loc.kind = "SpotInHand" ->
             IF IsSome(loc.val.card) THEN << Unwrap(loc.val.card) >> ELSE << >>

\* from b to b2 the origin's active card went to the destination completely:
\* it is the destination's active card, the origin lost and the destination
\* gained nothing but it, and no other location changed
Transferred(b, mv, b2) ==
    LET card == Unwrap(active_card(location_at(b, mv.origin))) IN
    /\ active_card(location_at(b2, mv.destination)) = Some(card)
    /\ b2 = mut_location_at(
                mut_location_at(b, mv.origin, location_at(b2, mv.origin)),
                mv.destination, location_at(b2, mv.destination))
    /\ IF mv.origin = mv.destination
       THEN Held(b2, mv.origin) = Held(b, mv.origin)
       ELSE /\ Append(Held(b2, mv.origin), card) = Held(b, mv.origin)
            /\ Held(b2, mv.destination) = Append(Held(b, mv.destination), card)

\* an outcome of execute that is all or nothing
AllOrNothing(b, mv, out) ==
    IF out.panic THEN out.board = b ELSE Transferred(b, mv, out.board)

\* C12 as stated: for every movement with labels a-t, permitted or not,
\* execute of board.rs either transfers the origin's active card completely
\* or fails and leaves the board as it was.
C12_NoPartialMove ==
    \A mv \in Movements : \A out \in execute(board, mv) :
        AllOrNothing(board, mv, out)

\* receive at the destination overwrites what the destination holds
OverwritingDestination(b, mv) ==
    LET origin == location_at(b, mv.origin)
        destination == location_at(b, mv.destination)
    IN /\ IsSome(active_card(origin))
       /\ \/ destination.kind = "SpotInHand" /\ IsSome(destination.val.card)
          \/ /\ destination.kind = "Foundation"
             /\ No(can_receive(destination, Unwrap(active_card(origin))))

\* in this state execute of board.rs is all or nothing for every movement
\* whose destination is not overwritten, and execute of main.rs for every
\* movement
C12_AllOrNothingUnlessOverwriting ==
    /\ \A mv \in Movements :
          LET overwriting == OverwritingDestination(board, mv) IN
          /\ Yes(permits(board, mv)) => ~overwriting
          /\ ~overwriting =>
                \A out \in execute(board, mv) : AllOrNothing(board, mv, out)
    /\ \A mv \in Movements :
          LET refused == No(Legacy_permits(legacy, mv)) IN
          \A out \in Legacy_execute(legacy, mv) :
              /\ AllOrNothing(legacy, mv, out)
              /\ out.panic = refused

\* C12 amended: execute of board.rs is all or nothing for every movement with
\* labels a-t, permitted or not, except when the destination is an occupied
\* hand cell or a foundation that cannot receive the card (receive then
\* overwrites the cell's card or the foundation's top rank); permitted
\* movements are never excepted. execute of main.rs, which asks permits
\* first, is all or nothing for every movement with labels a-t. This holds
\* in every state of every game.
C12_NoPartialMoveUnlessOverwriting == []C12_AllOrNothingUnlessOverwriting

\* a state with a movement that is not permitted and still executed in full
\* (a foundation gives its top card to a column that does not accept it), one
\* that fails (an empty column as origin), and a permitted one
C12_Witness ==
    /\ \E mv \in Movements :
          /\ IsFoundationLabel(mv.origin) /\ IsColumnLabel(mv.destination)
          /\ No(permits(board, mv))
          /\ IsSome(active_card(location_at(board, mv.origin)))
          /\ No(can_receive(location_at(board, mv.destination),
                          Unwrap(active_card(location_at(board, mv.origin)))))
          /\ \E out \in execute(board, mv) :
                ~out.panic /\ Transferred(board, mv, out.board)
    /\ \E mv \in Movements :
          /\ IsColumnLabel(mv.origin)
          /\ execute(board, mv) = { [panic |-> TRUE, board |-> board] }
    /\ \E mv \in Movements : Yes(permits(board, mv))

---------------------------------------------------------------------------
(* C13: give_card on a location that cannot give. *)

\* give_card is fatal: it panics, returns no card and leaves the location
FatalGive(loc) == give_card(loc) = { [panic |-> TRUE, loc |-> loc, card |-> None] }

NonEmptyFoundation(loc) == loc.kind = "Foundation" /\ IsSome(loc.val.top_rank)

\* C13 as stated: for each of the three variants and every state in which
\* can_give_card() is false, give_card is a fatal contract violation that
\* returns no card and does not change the location.
C13_GiveWithoutCanGiveIsFatal ==
    \A label \in Labels :
        LET loc == location_at(board, label) IN
        ~can_give_card(loc) => FatalGive(loc)

\* C13 amended: for a Column and a SpotInHand in every state in which
\* can_give_card() is false, and for an empty Foundation, give_card is fatal,
\* returns no card and does not change the location; a Foundation that holds
\* a top rank has can_give_card() false and yet give_card returns its top
\* card and lowers its top rank.
C13_GiveOnEmptyIsFatal ==
    \A label \in Labels :
        LET loc == location_at(board, label) IN
        /\ (~can_give_card(loc) /\ ~NonEmptyFoundation(loc)) => FatalGive(loc)
        /\ NonEmptyFoundation(loc) =>
              /\ ~can_give_card(loc)
              /\ \A o \in give_card(loc) :
                    /\ ~o.panic
                    /\ o.card = Some(Card_new(loc.val.suit, Unwrap(loc.val.top_rank)))
                    /\ o.loc # loc
        /\ can_give_card(loc) => \A o \in give_card(loc) : ~o.panic

\* an empty column, an empty hand cell, an empty foundation and a foundation
\* holding cards, all in one state
C13_Witness ==
    /\ \E label \in Labels :
          IsColumnLabel(label) /\ ~can_give_card(location_at(board, label))
    /\ \E label \in Labels :
          IsHandLabel(label) /\ ~can_give_card(location_at(board, label))
    /\ \E label \in Labels :
          IsFoundationLabel(label) /\ ~NonEmptyFoundation(location_at(board, label))
    /\ \E label \in Labels : NonEmptyFoundation(location_at(board, label))

---------------------------------------------------------------------------
(* C14: label resolution. *)

\* the location the claim assigns to the n-th label from 'a' (n = 0..19)
ClaimedLocation(b, n) ==
    IF n \in 0..3 THEN [kind |-> "Foundation", val |-> b.foundations[n]]
    ELSE IF n \in 4..12 THEN [kind |-> "Column", val |-> b.columns[n - 4]]
    ELSE [kind |-> "SpotInHand", val |-> b.hand[n - 13]]

\* the board with nothing but the location of the n-th label from 'a' replaced
ClaimedWrite(b, n, loc) ==
    IF n \in 0..3 THEN [b EXCEPT !.foundations[n] = loc.val]
    ELSE IF n \in 4..12 THEN [b EXCEPT !.columns[n - 4] = loc.val]
    ELSE [b EXCEPT !.hand[n - 13] = loc.val]

\* a location of the same kind as loc with other content
Altered(loc) ==
    CASE loc.kind = "Foundation" ->
             [loc EXCEPT !.val.top_rank = Some(TopOf(loc.val) + 1)]
      [] loc.kind = "Column" ->
             [loc EXCEPT !.val.cards = Append(@, Card_new("Spades", 1))]
      [] loc.kind = "SpotInHand" ->
             [loc EXCEPT !.val.card = IF IsSome(@) THEN None
                                      ELSE Some(Card_new("Spades", 1))]

\* C14: the labels a-t are resolved, each to one location: a-d to
\* foundations 0..3 (Spades, Hearts, Diamonds, Clubs), e-m to columns 0..8,
\* n-t to hand cells 0..6; location_at and mut_location_at resolve alike (a
\* write through mut_location_at is read back at its label by location_at and
\* at no other label), in board.rs and in main.rs; a label outside a-t fails
\* fatally, and the failing resolution changes nothing.
C14_LabelResolution ==
    /\ \A label \in Labels :
          /\ LabelInRange(label)
          /\ location_at(board, label) = ClaimedLocation(board, label - Ch_a)
          /\ Legacy_location_at(legacy, label) = ClaimedLocation(legacy, label - Ch_a)
    /\ << board.foundations[0].suit, board.foundations[1].suit,
          board.foundations[2].suit, board.foundations[3].suit >>
          = << "Spades", "Hearts", "Diamonds", "Clubs" >>
    /\ << legacy.foundations[0].suit, legacy.foundations[1].suit,
          legacy.foundations[2].suit, legacy.foundations[3].suit >>
          = << "Spades", "Hearts", "Diamonds", "Clubs" >>
    /\ \A written \in Labels :
          LET loc == Altered(location_at(board, written))
              b2 == mut_location_at(board, written, loc)
              l2 == Legacy_mut_location_at(legacy, written, loc)
          IN /\ location_at(b2, written) = loc
             /\ b2 = ClaimedWrite(board, written - Ch_a, loc)
             /\ Legacy_location_at(l2, written) = loc
             /\ l2 = ClaimedWrite(legacy, written - Ch_a, loc)
    /\ \A outside \in OutsideLabels :
          /\ ~LabelInRange(outside)
          /\ \A label \in Labels :
                /\ execute(board, Movement(outside, label))
                      = { [panic |-> TRUE, board |-> board] }
                /\ \A out \in execute(board, Movement(label, outside)) :
                      /\ out.panic
                      /\ out.board = ClaimedWrite(board, label - Ch_a,
                                                  location_at(out.board, label))
                /\ Legacy_execute(legacy, Movement(outside, label))
                      = { [panic |-> TRUE, board |-> legacy] }
                /\ Legacy_execute(legacy, Movement(label, outside))
                      = { [panic |-> TRUE, board |-> legacy] }

\* after a movement onto a column, with the foundations a and d holding
\* different top ranks and some hand cell and some column empty
C14_Witness ==
    /\ columnMoves = 1
    /\ TopOf(board.foundations[0]) # TopOf(board.foundations[3])
    /\ \E label \in Ch_n..Ch_t : ~IsSome(active_card(location_at(board, label)))
    /\ \E label \in Ch_e..Ch_m : ~IsSome(active_card(location_at(board, label)))

---------------------------------------------------------------------------
(* The driver: main() of src/src/main.rs, which plays on the Board of
   main.rs. pc is "from" at the first get_char, "to" at the second and "ask"
   at `if board.permits(m)`. When the process panics, pc is where it did:
   "get_char" inside get_char, "print" at a println!, "ask" in permits or
   execute; the unwinding drops m. *)

\* the characters get_char returns in the model
InputChars == (Ch_a - MaxInputMargin)..(Ch_t + MaxInputMargin)

\* get_char returns a character, or panics: stdout().flush().unwrap() on a
\* closed stdout, read_line(..).expect(..) on a line that cannot be read or
\* is not UTF-8 (a line that is not one character is asked for again)
get_char == { [panic |-> TRUE, value |-> Ch_a] } \cup { Ret(c) : c \in InputChars }

\* println! returns, or panics ("failed printing to stdout")
println == { [panic |-> TRUE, value |-> FALSE], Ret(TRUE) }

\* if c >= 'e' && c <= 't'
ValidFrom(c) == c >= Ch_e /\ c <= Ch_t

\* if c >= 'a' && c <= 'm'
ValidTo(c) == c >= Ch_a /\ c <= Ch_m

\* Board::new(), the first println! of the board, and the dummy m
DriverInit ==
    /\ dealt \in Decks
    /\ legacy = Legacy_Board_new(PoppedIn(dealt))
    /\ board = Board_new(dealt)
    /\ \E printed \in println :
          /\ panicked = printed.panic
          /\ pc = IF printed.panic THEN "print" ELSE "from"
    /\ move = DummyMove
    /\ received = [i \in 0..(NUM_SUITS - 1) |-> << >>]
    /\ dealtLeft = [j \in 0..(NUM_COLUMNS - 1) |-> j + 1]
    /\ columnMoves = 0
    /\ placedLog = << >>

\* the first inner loop: one get_char
ReadFrom ==
    /\ pc = "from"
    /\ ~panicked
    /\ \E c \in get_char :
          IF c.panic
          THEN panicked' = TRUE /\ pc' = "get_char" /\ move' = DummyMove
          ELSE IF ValidFrom(c.value)
          THEN /\ move' = [move EXCEPT !.origin = c.value]
               /\ pc' = "to"
               /\ UNCHANGED panicked
          ELSE \E printed \in println :
                  IF printed.panic
                  THEN panicked' = TRUE /\ pc' = "print" /\ move' = DummyMove
                  ELSE UNCHANGED <<move, pc, panicked>>
    /\ UNCHANGED <<board, legacy, dealt, received, dealtLeft, columnMoves,
                   placedLog>>

\* the second inner loop: one get_char (a permitted movement onto a column is
\* entered only while the model's bound allows one more)
ReadTo ==
    /\ pc = "to"
    /\ ~panicked
    /\ \E c \in get_char :
          IF c.panic
          THEN panicked' = TRUE /\ pc' = "get_char" /\ move' = DummyMove
          ELSE IF ValidTo(c.value)
          THEN /\ (LabelInRange(move.origin) /\ IsColumnLabel(c.value)
                      /\ Yes(Legacy_permits(legacy,
                                            Movement(move.origin, c.value))))
                     => columnMoves < MaxColumnMoves
               /\ move' = [move EXCEPT !.destination = c.value]
               /\ pc' = "ask"
               /\ UNCHANGED panicked
          ELSE \E printed \in println :
                  IF printed.panic
                  THEN panicked' = TRUE /\ pc' = "print" /\ move' = DummyMove
                  ELSE UNCHANGED <<move, pc, panicked>>
    /\ UNCHANGED <<board, legacy, dealt, received, dealtLeft, columnMoves,
                   placedLog>>

\* faulty variant: the movement is executed without asking permits
Mut_Turn_executes_unasked ==
    /\ pc = "ask"
    /\ ~panicked
    /\ \E out \in Legacy_execute(legacy, move), printed \in println :
          /\ legacy' = out.board
          /\ panicked' = (out.panic \/ printed.panic)
          /\ pc' = IF out.panic THEN "ask"
                   ELSE IF printed.panic THEN "print" ELSE "from"
    /\ columnMoves' = IF IsColumnLabel(move.destination) /\ legacy' # legacy
                      THEN columnMoves + 1 ELSE columnMoves
    /\ move' = DummyMove
    /\ UNCHANGED <<board, dealt, received, dealtLeft, placedLog>>

\* if board.permits(m) { board.execute(m); println!(..) } else { println!(..) },
\* and on to the next round of the outer loop with a fresh dummy m
Turn ==
    /\ pc = "ask"
    /\ ~panicked
    /\ \E p \in (IF LabelInRange(move.origin) /\ LabelInRange(move.destination)
                 THEN Legacy_permits(legacy, move)
                 ELSE { [panic |-> TRUE, value |-> FALSE] }) :
          IF p.panic
          THEN panicked' = TRUE /\ pc' = "ask" /\ UNCHANGED <<legacy, columnMoves>>
          ELSE IF p.value
          THEN /\ \E out \in Legacy_execute(legacy, move), printed \in println :
                     /\ legacy' = out.board
                     /\ panicked' = (out.panic \/ printed.panic)
                     /\ pc' = IF out.panic THEN "ask"
                              ELSE IF printed.panic THEN "print" ELSE "from"
               /\ columnMoves' = IF IsColumnLabel(move.destination)
                                 THEN columnMoves + 1 ELSE columnMoves
          ELSE /\ \E printed \in println :
                     /\ panicked' = printed.panic
                     /\ pc' = IF printed.panic THEN "print" ELSE "from"
               /\ UNCHANGED <<legacy, columnMoves>>
    /\ move' = DummyMove
    /\ UNCHANGED <<board, dealt, received, dealtLeft, placedLog>>

DriverNext ==
    \/ ReadFrom
    \/ ReadTo
    \/ Turn

SpecDriver == DriverInit /\ [][DriverNext]_vars

---------------------------------------------------------------------------
(* C15: driver discipline. The driver asks the board only about movements
   with origin in e-t and destination in a-m; the board changes only in a
   step in which permits held for the movement in that same state, the origin
   could give its card, and the change is that of execute; a movement permits
   rejects leaves the board as it was; no panic of the board ("Label outside
   range", "Illegal move", a give_card on an empty location, or an overflow
   of a rank) is ever reached: the process panics only where it reads from
   or writes to the terminal. *)

C15_AsksInRangeNeverPanics ==
    /\ panicked => pc \in {"get_char", "print"}
    /\ pc \in {"to", "ask"} => move.origin \in Ch_e..Ch_t
    /\ pc = "ask" => move.destination \in Ch_a..Ch_m

C15_ExecutesOnlyPermitted ==
    /\ legacy' # legacy =>
          /\ pc = "ask"
          /\ LabelInRange(move.origin) /\ LabelInRange(move.destination)
          /\ Yes(Legacy_permits(legacy, move))
          /\ Legacy_can_give_card(Legacy_location_at(legacy, move.origin))
          /\ \E out \in Legacy_execute(legacy, move) :
                ~out.panic /\ legacy' = out.board
    /\ pc = "ask" => Decided(Legacy_permits(legacy, move))
    /\ (pc = "ask" /\ LabelInRange(move.origin) /\ LabelInRange(move.destination)
           /\ No(Legacy_permits(legacy, move)))
          => (legacy' = legacy /\ (panicked' => pc' = "print"))

C15_DriverDiscipline ==
    []C15_AsksInRangeNeverPanics /\ [][C15_ExecutesOnlyPermitted]_vars

\* after executed movements, the driver is about to ask for a movement
\* that permits rejects
C15_Witness ==
    /\ pc = "ask"
    /\ columnMoves = 1
    /\ \E i \in DOMAIN legacy.foundations : IsSome(legacy.foundations[i].top_rank)
    /\ No(Legacy_permits(legacy, move))

---------------------------------------------------------------------------
(* C16: win detection in the driver. After every executed movement the
   driver checks victory_state, and the game ends once it reports Won: in a
   Won state the driver is at none of its prompts, so that no further
   movement is requested or applied. *)

C16_GameEndsOnceWon ==
    victory_state(legacy) = "Won" => pc \notin {"from", "to", "ask"}

---------------------------------------------------------------------------
(* C17: column run invariant. Every card of a column that execute placed
   there (the cards above the dealt ones that remain) and that is not the
   bottom card lies on a card of the opposite color and of rank exactly one
   higher. The dealt cards that remain are as they were dealt, whether or
   not they form such a run. *)

\* the k-th card of the column (k > 1) lies on a card that accepts it
LiesInRun(cards, k) ==
    /\ Card_color(cards[k - 1]) # Card_color(cards[k])
    /\ cards[k - 1].rank = cards[k].rank + 1

C17_ColumnRunInvariant ==
    \A j \in DOMAIN board.columns :
        LET cards == board.columns[j].cards IN
        /\ dealtLeft[j] <= Len(cards)
        /\ \A k \in (dealtLeft[j] + 1)..Len(cards) : k > 1 => LiesInRun(cards, k)
        /\ SubSeq(cards, 1, dealtLeft[j])
              = SubSeq(Board_new(dealt).columns[j].cards, 1, dealtLeft[j])

\* what the log tells of the column at `label`
LogOf(label) == SelectSeq(placedLog, LAMBDA e : e.label = label)

\* a column was emptied of its dealt cards and refilled: a card was placed in
\* it, a second card was placed on that one and taken off again, and a third
\* card now lies on the first; another column still holds dealt cards that
\* do not lie in a run
C17_Witness ==
    /\ \E j \in DOMAIN board.columns :
          LET cards == board.columns[j].cards
              log == LogOf(Ch_e + j)
              n == Len(log)
          IN /\ dealtLeft[j] = 0
             /\ Len(cards) = 2
             /\ n >= 4
             /\ log[n - 3] = [op |-> "placed", label |-> Ch_e + j, card |-> cards[1]]
             /\ log[n - 2].op = "placed"
             /\ log[n - 1] = [log[n - 2] EXCEPT !.op = "lifted"]
             /\ log[n] = [op |-> "placed", label |-> Ch_e + j, card |-> cards[2]]
             /\ log[n].card # log[n - 2].card
    /\ \E j \in DOMAIN board.columns :
          \E k \in 2..dealtLeft[j] : ~LiesInRun(board.columns[j].cards, k)

---------------------------------------------------------------------------
(* C18: Foundation's give_card undoes receive. For a foundation whose top
   rank is r (it has received the ranks 1..r, the last of them the card of
   its suit and rank r), give_card returns that card and leaves the
   foundation as it was before rank r was received: with top rank r - 1 when
   r > 1, and empty, with no active card, when r = 1. *)

C18_GiveUndoesReceive ==
    \A i \in DOMAIN board.foundations :
        LET f == board.foundations[i]
            r == Len(received[i])
        IN r >= 1 =>
              \A o \in Foundation_give_card(f) :
                  /\ ~o.panic
                  /\ o.card = Some(received[i][r])
                  /\ o.card = Some(Card_new(f.suit, r))
                  /\ o.loc = [suit |-> f.suit,
                              top_rank |-> IF r > 1 THEN Some(r - 1) ELSE None]
                  /\ r = 1 => Foundation_active_card(o.loc) = None

---------------------------------------------------------------------------
(* C19: the two rule engines agree on legal play. Started from the same
   deal and given the same permitted movements, the Board of main.rs and the
   Board of board.rs are in the same state; there permits answers the same
   in both for every movement with labels a-t, and for every movement permits
   accepts execute yields the same board in both, without failing. *)

\* the two boards are equal, and permits and execute agree on them
C19_InLockstep ==
    /\ legacy = board
    /\ \A mv \in Movements :
          LET permitted == permits(board, mv) IN
          /\ Legacy_permits(legacy, mv) = permitted
          /\ Decided(permitted)
          /\ Yes(permitted) =>
                /\ Legacy_execute(legacy, mv) = execute(board, mv)
                /\ \A out \in execute(board, mv) : ~out.panic

\* C19: along every sequence of permitted movements the two rule engines
\* stay in the same state and agree on permits and on execute
C19_LegacyEquivalent == []C19_InLockstep

\* both engines have executed movements onto foundations and onto a column,
\* and a movement is permitted
C19_Witness ==
    /\ columnMoves = 1
    /\ legacy = board
    /\ \E i \in DOMAIN legacy.foundations : TopOf(legacy.foundations[i]) >= 2
    /\ \E mv \in Movements : Yes(Legacy_permits(legacy, mv)) /\ IsHandLabel(mv.origin)

---------------------------------------------------------------------------
(* C20: Won is terminal. In every reachable state in which victory_state is
   Won, all nine columns and all seven hand cells are empty, permitted_moves
   returns no movement and permits rejects every movement with labels a-t;
   and a step from a Won state leads to a Won state, so that victory_state
   never returns from Won to Ongoing. *)

C20_NothingLeftToMove ==
    victory_state(board) = "Won" =>
        /\ \A j \in DOMAIN board.columns : board.columns[j].cards = << >>
        /\ \A k \in DOMAIN board.hand : board.hand[k].card = None
        /\ permitted_moves(board) = { Ret(<< >>) }
        /\ \A mv \in Movements : No(permits(board, mv))

C20_WonStaysWon ==
    victory_state(board) = "Won" => victory_state(board') = "Won"

C20_WonIsTerminal == []C20_NothingLeftToMove /\ [][C20_WonStaysWon]_vars

\* a game won after a movement onto a column
C20_Witness ==
    /\ victory_state(board) = "Won"
    /\ columnMoves = 1
    /\ \A i \in DOMAIN received : Len(received[i]) = MAX_RANK

===========================================================================
